---- MODULE Spec2Model ----
(***************************************************************************)
(* Reminder scheduling engine of the desk-clock uTools plugin              *)
(* (src/preload.js): the time-block store, the four dedup maps, the        *)
(* AlertManager poll tick and the user edits of the block list.            *)
(*                                                                         *)
(* Time is the millisecond clock of the code, counted from midnight of the *)
(* calendar day baseDay (in days since 1 January 1970, a Thursday) so that *)
(* clock values stay within 32 bits.  Local time is taken without          *)
(* daylight-saving shifts, so a calendar day is DayMs long.                *)
(* window.utools.dbStorage is a persistent key-value store: getItem hands  *)
(* out a copy of the stored value, so a                                    *)
(* change made to a block object read from the store reaches the store     *)
(* only through setItem.                                                   *)
(***************************************************************************)
EXTENDS Integers, Sequences, FiniteSets, TLC

(* ------------------------------ bounds --------------------------------- *)
FirstDay == 4
MaxDay == 5
WindowBefore == 5
WindowAfter == 1
MaxSub == 2
MaxEdits == 1
\* blocks the working copy holds at most, intervals set at most
MaxBlocks == 3
MaxIntervals == 2
\* calls of saveTimeSettings in a row
MaxSaves == 2
\* floating windows created in one run
MaxWindows == 3
\* Monday 26 Feb 2024: the week runs over the leap day into March
CalWeekStart == 19779

(* ------------------------- program constants --------------------------- *)
TickMs == 5000
DebounceMs == 10000
MinuteMs == 60000
DayMs == 86400000
Unlimited == 0 - 1

(* --------------------------- model domains ----------------------------- *)
TriggerMinute == 9 * 60
FirstClockMinute == TriggerMinute - WindowBefore
LastClockMinute == TriggerMinute + WindowAfter
InitIds == {1, 2}
\* mutant: the generated id is one that is in use
FreshIdAt_Reuse(n) == 1

FreshIdAt(n) == 10 + n
AllIds == InitIds \cup {FreshIdAt(n) : n \in 0..MaxEdits}
At(day, minute) == day * DayMs + minute * MinuteMs

\* store                  dbStorage value under TIME_BLOCKS_KEY
\* settings               dbStorage value under 'globalSettings'
\* now                    clock value of the most recent poll tick
\* timeBlocks             AlertManager.timeBlocks
\* lastAlertDates ...     the four dedup maps, keyed by block id
\* alerts                 notifications sent by the most recent step
\* mainCount              main alerts sent per id so far
\* minuteMain             main alerts per id in the current clock minute,
\*                        counted since the last edit of that block
\* preCount               pre-alerts per id on the current day, counted since
\*                        the last edit of that block or of the settings
\* lastOp                 the operation that made the most recent step
\* edits                  number of user edits so far
\* baseDay                the calendar day on which the clock value 0 falls
\* timer                  AlertManager.timer holds an interval id (is not null)
\* intervals              number of intervals set by setInterval and not cleared
\* floatingOpening        window.__floatingOpening
\* floatingWin            window.floatingWin: a window, or 0 for null
\* floatingWindows        the windows held in window.__floatingWindows
\* floatingVisible        window.__floatingVisible
\* stateVisible           visible of the stored floatingWindowState
\* liveWindows            the floating windows created and not destroyed
\* pendingCallbacks       windows whose creation callback has not run yet
\* pendingClosed          windows whose 'closed' event has not been handled yet
\* windowsCreated         number of floating windows created so far
\* closedLast             the latest call of openFloatingWindow or
\*                        closeFloatingWindow was closeFloatingWindow
VARIABLES store, settings, now, timeBlocks, lastAlertDates, lastNotificationTimes, lastPreAlertTimes, lastRemainingMinutes, alerts, mainCount, minuteMain, preCount, edits, lastOp, baseDay, timer, intervals, floatingOpening, floatingWin, floatingWindows, floatingVisible, stateVisible, liveWindows, pendingCallbacks, pendingClosed, windowsCreated, closedLast

vars == <<store, settings, now, timeBlocks, lastAlertDates, lastNotificationTimes,
          lastPreAlertTimes, lastRemainingMinutes, alerts, mainCount, minuteMain,
          preCount, edits, lastOp, baseDay, timer, intervals,
          floatingOpening, floatingWin, floatingWindows, floatingVisible, stateVisible,
          liveWindows, pendingCallbacks, pendingClosed, windowsCreated, closedLast>>

\* the floating window's part of the state
floatVars == <<floatingOpening, floatingWin, floatingWindows, floatingVisible, stateVisible,
               liveWindows, pendingCallbacks, pendingClosed, windowsCreated, closedLast>>

\* the floating-window flags as preload.js sets them when it is loaded, with
\* no window and visible false in the store
InitFloating ==
  /\ floatingOpening = FALSE
  /\ floatingWin = 0
  /\ floatingWindows = {}
  /\ floatingVisible = FALSE
  /\ stateVisible = FALSE
  /\ liveWindows = {}
  /\ pendingCallbacks = {}
  /\ pendingClosed = {}
  /\ windowsCreated = 0
  /\ closedLast = FALSE

dedup == <<lastAlertDates, lastNotificationTimes, lastPreAlertTimes, lastRemainingMinutes>>

(* ------------------------------ Date ----------------------------------- *)
DayOf(t) == t \div DayMs
MinuteOfDay(t) == (t % DayMs) \div MinuteMs
getHours(t) == MinuteOfDay(t) \div 60
getMinutes(t) == MinuteOfDay(t) % 60
\* days since 1 January 1970
DayNumber(t) == baseDay + DayOf(t)
getDay(t) == (DayNumber(t) + 4) % 7
Midnight(t) == DayOf(t) * DayMs

\* the calendar fields of a Date, computed as the language defines them
\* (years from 1970 on; months are 0..11)
DayFromYear(y) ==
  365 * (y - 1970) + (y - 1969) \div 4 - (y - 1901) \div 100 + (y - 1601) \div 400

InLeapYear(y) == (y % 4 = 0 /\ y % 100 # 0) \/ y % 400 = 0

MonthLengths(y) ==
  <<31, IF InLeapYear(y) THEN 29 ELSE 28, 31, 30, 31, 30, 31, 31, 30, 31, 30, 31>>

RECURSIVE DaysBeforeMonth(_, _)
DaysBeforeMonth(y, m) ==
  IF m = 0 THEN 0 ELSE DaysBeforeMonth(y, m - 1) + MonthLengths(y)[m]

getFullYear(t) ==
  CHOOSE y \in (1970 + DayNumber(t) \div 366)..(1970 + DayNumber(t) \div 365) :
    DayFromYear(y) <= DayNumber(t) /\ DayNumber(t) < DayFromYear(y + 1)

DayWithinYear(t) == DayNumber(t) - DayFromYear(getFullYear(t))

getMonth(t) ==
  CHOOSE m \in 0..11 :
    /\ DaysBeforeMonth(getFullYear(t), m) <= DayWithinYear(t)
    /\ DayWithinYear(t) < DaysBeforeMonth(getFullYear(t), m + 1)

getDate(t) == DayWithinYear(t) - DaysBeforeMonth(getFullYear(t), getMonth(t)) + 1

\* mutant: a day of the month past the month's end stays on the last day
setDate_Clamped(t, dt) ==
  (DayFromYear(getFullYear(t)) + DaysBeforeMonth(getFullYear(t), getMonth(t))
   + (IF dt > MonthLengths(getFullYear(t))[getMonth(t) + 1]
      THEN MonthLengths(getFullYear(t))[getMonth(t) + 1] ELSE dt) - 1 - baseDay) * DayMs
  + (t % DayMs)

\* date.setDate(dt): same year, month and time of day, day of the month dt;
\* a dt past the end of the month runs on into the following months
setDate(t, dt) ==
  (DayFromYear(getFullYear(t)) + DaysBeforeMonth(getFullYear(t), getMonth(t)) + dt - 1 - baseDay) * DayMs
  + (t % DayMs)

(* ------------------------------- Map ----------------------------------- *)
MapHas(m, k) == k \in DOMAIN m
MapGetOr(m, k, d) == IF k \in DOMAIN m THEN m[k] ELSE d
MapSet(m, k, v) == [x \in (DOMAIN m) \cup {k} |-> IF x = k THEN v ELSE m[x]]
MapDelete(m, k) == [x \in (DOMAIN m) \ {k} |-> m[x]]
MapSize(m) == Cardinality(DOMAIN m)
EmptyMap == [x \in {} |-> 0]

Has(r, f) == f \in DOMAIN r

(* ----------------------------- the store ------------------------------- *)
getTimeSettings == store

StoreIds(blocks) == {blocks[i].id : i \in 1..Len(blocks)}

\* mutant: the filter keeps the block it should drop
Filter_KeepAll(blocks, id) == blocks

Filter(blocks, id) == SelectSeq(blocks, LAMBDA b : b.id # id)

\* mutant: createdAt is stamped on every save
NormalizeBlock_Restamp(b, freshId, t) ==
  [id |-> IF Has(b, "id") /\ b.id # 0 THEN b.id ELSE freshId,
   createdAt |-> t,
   status |-> IF Has(b, "status") /\ b.status # "" THEN b.status ELSE "pending",
   preAlert |-> IF Has(b, "preAlert") THEN b.preAlert ELSE FALSE,
   reminderCount |-> IF Has(b, "reminderCount") THEN b.reminderCount ELSE Unlimited,
   remainingCount |-> IF Has(b, "remainingCount") THEN b.remainingCount
                      ELSE IF Has(b, "reminderCount") THEN b.reminderCount ELSE Unlimited]
  @@ b

\* the map callback of saveTimeSettings; 0 and "" are the falsy values of ||
NormalizeBlock(b, freshId, t) ==
  [id |-> IF Has(b, "id") /\ b.id # 0 THEN b.id ELSE freshId,
   createdAt |-> IF Has(b, "createdAt") /\ b.createdAt # 0 THEN b.createdAt ELSE t,
   status |-> IF Has(b, "status") /\ b.status # "" THEN b.status ELSE "pending",
   preAlert |-> IF Has(b, "preAlert") THEN b.preAlert ELSE FALSE,
   reminderCount |-> IF Has(b, "reminderCount") THEN b.reminderCount ELSE Unlimited,
   remainingCount |-> IF Has(b, "remainingCount") THEN b.remainingCount
                      ELSE IF Has(b, "reminderCount") THEN b.reminderCount ELSE Unlimited]
  @@ b

saveTimeSettingsValue(blocks, freshId, t) ==
  [i \in 1..Len(blocks) |-> NormalizeBlock(blocks[i], freshId, t)]

(* --------------------------- global settings --------------------------- *)
\* getItem returning null: no record under the key
NoSettings == [absent |-> TRUE]

DefaultSettings == [preAlertTime |-> 3, preAlertCount |-> 1, globalAlertEnabled |-> TRUE]

\* mutant: a missing record is used as it is
TickSettings_NoDefault == settings

\* getItem('globalSettings') || { preAlertTime: 3, preAlertCount: 1, globalAlertEnabled: true }
TickSettings == IF settings = NoSettings THEN DefaultSettings ELSE settings

\* mutant: the master switch is not consulted
GlobalOff_Ignored(s) == FALSE

\* !settings || settings.globalAlertEnabled === false
GlobalOff(s) == Has(s, "globalAlertEnabled") /\ s.globalAlertEnabled = FALSE

(* ------------------------- the evaluation pass -------------------------- *)
\* mutant: the status is not consulted
Evaluated_NoStatus(b) == Has(b, "enabled") /\ b.enabled

\* if (!block.enabled || block.status !== 'pending') return;
Evaluated(b) == Has(b, "enabled") /\ b.enabled /\ b.status = "pending"

\* mutant: a block without a mode is taken as weekly
ModeOf_WeeklyDefault(b) == IF Has(b, "reminderMode") THEN b.reminderMode ELSE "weekly"

\* block.reminderMode || 'daily'
ModeOf(b) == IF Has(b, "reminderMode") THEN b.reminderMode ELSE "daily"

\* block.weekdays || []
WeekdaysOf(b) == IF Has(b, "weekdays") THEN b.weekdays ELSE {}

\* totalBlockMinutes - totalCurrentMinutes
TimeDiff(b, t) ==
  (getHours(b.startTime) * 60 + getMinutes(b.startTime)) - (getHours(t) * 60 + getMinutes(t))

\* mutant: the window includes the trigger minute itself
PreAlertWindow_WithTrigger(b, s, t) ==
  /\ b.preAlert
  /\ TimeDiff(b, t) >= 0
  /\ Has(s, "preAlertTime")
  /\ TimeDiff(b, t) <= s.preAlertTime

\* block.preAlert && timeDiff > 0 && timeDiff <= settings.preAlertTime
PreAlertWindow(b, s, t) ==
  /\ b.preAlert
  /\ TimeDiff(b, t) > 0
  /\ Has(s, "preAlertTime")
  /\ TimeDiff(b, t) <= s.preAlertTime

\* mutant: the weekday is not consulted
WeekdayOk_Always(b, t) == TRUE

\* mutant: a weekly block with no weekday selected is due every day
WeekdayOk_EmptyMeansAll(b, t) ==
  (ModeOf(b) = "weekly" /\ WeekdaysOf(b) # {}) => getDay(t) \in WeekdaysOf(b)

\* shouldPreAlert / shouldAlert: a weekly block needs today's weekday selected
WeekdayOk(b, t) == ModeOf(b) = "weekly" => getDay(t) \in WeekdaysOf(b)

\* Math.floor(settings.preAlertTime / settings.preAlertCount)
PreAlertInterval(s) == s.preAlertTime \div s.preAlertCount

\* the three-part condition guarding the pre-alert
PreAlertGuard(lpt, lrm, b, s, t) ==
  /\ MapGetOr(lrm, b.id, 0) # TimeDiff(b, t)
  /\ Has(s, "preAlertCount")
  /\ s.preAlertCount > 0
  /\ t - MapGetOr(lpt, b.id, 0) >= PreAlertInterval(s) * MinuteMs
  /\ s.preAlertCount > MapSize(lpt)

\* mutant: the block is due only on the calendar day of its startTime
MainMatch_OnItsDay(b, t) ==
  /\ DayOf(t) = DayOf(b.startTime)
  /\ getHours(t) = getHours(b.startTime) /\ getMinutes(t) = getMinutes(b.startTime)

\* mutant: a block whose minute has passed is still due
MainMatch_CatchUp(b, t) == TimeDiff(b, t) <= 0

\* currentHour === blockHour && currentMinute === blockMinute
MainMatch(b, t) ==
  getHours(t) = getHours(b.startTime) /\ getMinutes(t) = getMinutes(b.startTime)

\* mutant: only the debounce is checked, not the day of the last alert
MainGuard_NoDateCheck(lad, lnt, b, t) == t - MapGetOr(lnt, b.id, 0) >= DebounceMs

\* lastAlertDate !== today && currentTime - lastNotificationTime >= 10000
MainGuard(lad, lnt, b, t) ==
  /\ ~(MapHas(lad, b.id) /\ lad[b.id] = Midnight(t))
  /\ t - MapGetOr(lnt, b.id, 0) >= DebounceMs

\* mutant: the scan stops at the day after currentDate
DaysToAdd_NextDay(weekday, weekdays, i) == 1

RECURSIVE DaysToAdd(_, _, _)
DaysToAdd(weekday, weekdays, i) ==
  IF i > 7 THEN 1
  ELSE IF ((weekday + i) % 7) \in weekdays THEN i
  ELSE DaysToAdd(weekday, weekdays, i + 1)

getNextWeeklyAlertDate(currentDate, weekdays) ==
  setDate(currentDate, getDate(currentDate) + DaysToAdd(getDay(currentDate), weekdays, 1))

\* mutant: the count is taken down without looking at what is left
CountStep_NoFloor(b) ==
  IF b.reminderCount = Unlimited THEN b
  ELSE [remainingCount |-> b.remainingCount - 1] @@ b

\* mutant: an unlimited block is counted like any other
CountStep_CountsUnlimited(b) == [remainingCount |-> b.remainingCount - 1] @@ b

\* the reminder-count step applied to the in-memory block
CountStep(b) ==
  LET reminderCount == IF Has(b, "reminderCount") THEN b.reminderCount ELSE Unlimited
      remainingCount == IF Has(b, "remainingCount") THEN b.remainingCount ELSE reminderCount
  IN IF reminderCount = Unlimited THEN b
     ELSE IF remainingCount > 0
          THEN [remainingCount |-> remainingCount - 1] @@ b
          ELSE [status |-> "disabled"] @@ b

\* the roll-forward of startTime, then block.status = 'pending'
Reschedule(b) ==
  LET next == IF ModeOf(b) = "daily" THEN setDate(b.startTime, getDate(b.startTime) + 1)
              ELSE IF ModeOf(b) = "weekly" THEN getNextWeeklyAlertDate(b.startTime, b.weekdays)
              ELSE b.startTime
  IN [startTime |-> next, status |-> "pending"] @@ b

PreAlertOf(b, t) == [kind |-> "pre", id |-> b.id, remaining |-> TimeDiff(b, t)]
MainAlertOf(b) == [kind |-> "main", id |-> b.id, remaining |-> 0]

\* an exception raised while the forEach body runs for block b; it leaves the
\* setInterval callback, which has no try/catch around the loop
ThrownOf(b) == [kind |-> "thrown", id |-> b.id, remaining |-> 0]

Thrown(st) == \E k \in 1..Len(st.alerts) : st.alerts[k].kind = "thrown"

\* mutant: the delete resets the records of every block
DeleteIn_ResetsAll(st, id, t) ==
  [st EXCEPT !.store = saveTimeSettingsValue(Filter(st.store, id), 0, t),
             !.lpt = EmptyMap, !.lrm = EmptyMap, !.lad = EmptyMap, !.lnt = EmptyMap]

\* window.deleteTimeBlock run on the pass state
DeleteIn(st, id, t) ==
  [st EXCEPT !.store = saveTimeSettingsValue(Filter(st.store, id), 0, t),
             !.lpt = MapDelete(@, id),
             !.lrm = MapDelete(@, id),
             !.lad = MapDelete(@, id),
             !.lnt = MapDelete(@, id)]

\* the pre-alert part of the forEach body; st.fails holds the ids for which
\* the notification window cannot be created in this pass
PreAlertStep(st, b, s, t) ==
  IF PreAlertWindow(b, s, t) /\ WeekdayOk(b, t) /\ PreAlertGuard(st.lpt, st.lrm, b, s, t)
  THEN IF b.id \in st.fails
       THEN [st EXCEPT !.alerts = Append(@, ThrownOf(b))]
       ELSE [st EXCEPT !.alerts = Append(@, PreAlertOf(b, t)),
                       !.lrm = MapSet(@, b.id, TimeDiff(b, t)),
                       !.lpt = MapSet(@, b.id, t)]
  ELSE st

\* the main-alert part of the forEach body
MainAlertStep(st, i, b, t) ==
  IF ~MainMatch(b, t) THEN st
  ELSE IF ~WeekdayOk(b, t) THEN st
  ELSE IF ~MainGuard(st.lad, st.lnt, b, t) THEN st
  ELSE IF b.id \in st.fails THEN [st EXCEPT !.alerts = Append(@, ThrownOf(b))]
  ELSE LET fired == [st EXCEPT !.alerts = Append(@, MainAlertOf(b)),
                               !.lad = MapSet(@, b.id, Midnight(t)),
                               !.lnt = MapSet(@, b.id, t)]
       IN IF Has(b, "reminderMode") /\ b.reminderMode = "once"
          THEN DeleteIn(fired, b.id, t)
          ELSE IF ModeOf(b) = "weekly" /\ ~Has(b, "weekdays")
          THEN \* block.weekdays.includes on undefined
               [fired EXCEPT !.mem[i] = CountStep(b),
                             !.alerts = Append(@, ThrownOf(b))]
          ELSE [fired EXCEPT !.mem[i] = Reschedule(CountStep(b)),
                             !.lrm = MapDelete(@, b.id),
                             !.lpt = MapDelete(@, b.id)]

\* the forEach body for this.timeBlocks[i]
EvalBlock(st, i, s, t) ==
  LET b == st.mem[i]
  IN IF ~Evaluated(b) THEN st
     ELSE LET pre == PreAlertStep(st, b, s, t)
          IN IF Thrown(pre) THEN pre ELSE MainAlertStep(pre, i, b, t)

RECURSIVE EvalFrom(_, _, _, _)
EvalFrom(st, i, s, t) ==
  IF i > Len(st.mem) \/ Thrown(st) THEN st
  ELSE EvalFrom(EvalBlock(st, i, s, t), i + 1, s, t)

\* the setInterval callback run at clock value t
TickResult(t, fails) ==
  LET start == [mem |-> getTimeSettings, store |-> store,
                lad |-> lastAlertDates, lnt |-> lastNotificationTimes,
                lpt |-> lastPreAlertTimes, lrm |-> lastRemainingMinutes,
                alerts |-> <<>>, fails |-> fails]
  IN IF GlobalOff(TickSettings) THEN start
     ELSE EvalFrom(start, 1, TickSettings, t)

(* ------------------------------ the clock ------------------------------ *)
\* the clock values at which the next tick can run: the next interval, or,
\* after a pause of the process, the start of the next minute or of the
\* next day's window
NextTimes(t) ==
  {t + TickMs : x \in {1} \cap {y \in {1} : t % MinuteMs < MaxSub * TickMs}}
  \cup {At(DayOf(t), MinuteOfDay(t) + 1) : x \in {y \in {1} : MinuteOfDay(t) < LastClockMinute}}
  \cup {At(DayOf(t) + 1, FirstClockMinute) : x \in {y \in {1} : DayOf(t) < MaxDay}}

\* the first clock value after a sleep that skipped the following minute
SleepTimes(t) ==
  {At(DayOf(t), MinuteOfDay(t) + 2) : x \in {y \in {1} : MinuteOfDay(t) + 2 <= LastClockMinute}}

CountKind(as, kind, id) ==
  Cardinality({i \in 1..Len(as) : as[i].kind = kind /\ as[i].id = id})

SameMinute(t1, t2) == DayOf(t1) = DayOf(t2) /\ MinuteOfDay(t1) = MinuteOfDay(t2)

(* ---------------------------- initial state ---------------------------- *)
Block(id, en, st, pre, mode, wd, cnt) ==
  [id |-> id, task |-> "t1", startTime |-> At(FirstDay, TriggerMinute),
   enabled |-> en, status |-> st, preAlert |-> pre, reminderMode |-> mode,
   weekdays |-> wd, reminderCount |-> cnt, remainingCount |-> cnt, createdAt |-> 1]

FirstBlocks ==
  {Block(1, TRUE, "pending", pre, mw[1], mw[2], Unlimited) :
     pre \in BOOLEAN,
     mw \in {<<"daily", {}>>, <<"weekly", {2}>>, <<"once", {}>>}}
  \cup {Block(1, TRUE, "pending", FALSE, "daily", {}, 2),
        Block(1, FALSE, "pending", TRUE, "daily", {}, Unlimited),
        Block(1, TRUE, "disabled", TRUE, "daily", {}, Unlimited)}

SecondBlock == Block(2, TRUE, "pending", TRUE, "daily", {}, Unlimited)

InitStores ==
  {<<b1>> : b1 \in FirstBlocks} \cup {<<b1, SecondBlock>> : b1 \in FirstBlocks}

\* the settings records the settings form can have written
FormSettings ==
  {[preAlertTime |-> pt, preAlertCount |-> IF pt > 3 THEN 2 ELSE 1, globalAlertEnabled |-> TRUE] :
     pt \in {3, 5}}

Zero == [id \in AllIds |-> 0]

Init ==
  /\ baseDay = 0
  /\ store \in InitStores
  /\ settings \in FormSettings
  /\ now = At(FirstDay, FirstClockMinute)
  /\ timeBlocks = store
  /\ lastAlertDates = EmptyMap
  /\ lastNotificationTimes = EmptyMap
  /\ lastPreAlertTimes = EmptyMap
  /\ lastRemainingMinutes = EmptyMap
  /\ alerts = <<>>
  /\ mainCount = Zero
  /\ minuteMain = Zero
  /\ preCount = Zero
  /\ edits = 0
  /\ lastOp = "init"
  /\ timer = TRUE
  /\ intervals = 1
  /\ InitFloating

(* ------------------------------- actions ------------------------------- *)
\* one run of the setInterval callback of startGlobalTimer at clock value t;
\* fails holds the ids whose notification window cannot be created
TickAt(t, fails, op) ==
  \E r \in {TickResult(t, fails)} :
     /\ intervals > 0
     /\ fails # {} => Thrown(r)
     /\ now' = t
     /\ timeBlocks' = r.mem
     /\ store' = r.store
     /\ lastAlertDates' = r.lad
     /\ lastNotificationTimes' = r.lnt
     /\ lastPreAlertTimes' = r.lpt
     /\ lastRemainingMinutes' = r.lrm
     /\ alerts' = r.alerts
     /\ mainCount' = [id \in AllIds |-> mainCount[id] + CountKind(r.alerts, "main", id)]
     /\ minuteMain' = [id \in AllIds |->
          (IF SameMinute(now, t) THEN minuteMain[id] ELSE 0)
          + CountKind(r.alerts, "main", id)]
     /\ preCount' = [id \in AllIds |->
          (IF DayOf(now) = DayOf(t) THEN preCount[id] ELSE 0)
          + CountKind(r.alerts, "pre", id)]
     /\ lastOp' = op
     /\ UNCHANGED <<settings, edits, baseDay, timer, intervals, floatVars>>

\* a poll tick whose notifications are all delivered
Tick == \E t \in NextTimes(now) : TickAt(t, {}, "Tick")

\* a poll tick in which createBrowserWindow throws for one block's alert
TickThrows ==
  \E t \in NextTimes(now), id \in StoreIds(store) : TickAt(t, {id}, "TickThrows")

\* the first poll tick after the process slept through a whole clock minute
SleepTick == \E t \in SleepTimes(now) : TickAt(t, {}, "SleepTick")

\* mutant: an id that is not found selects the first block
IndexOf_FirstIfAbsent(blocks, id) ==
  IF \E i \in 1..Len(blocks) : blocks[i].id = id
  THEN CHOOSE i \in 1..Len(blocks) :
         blocks[i].id = id /\ \A j \in 1..(i - 1) : blocks[j].id # id
  ELSE IF blocks = <<>> THEN 0 ELSE 1

\* blocks.findIndex(block => block.id === id), 0 for -1
IndexOf(blocks, id) ==
  IF \E i \in 1..Len(blocks) : blocks[i].id = id
  THEN CHOOSE i \in 1..Len(blocks) :
         blocks[i].id = id /\ \A j \in 1..(i - 1) : blocks[j].id # id
  ELSE 0

\* mutant: only the pre-alert records of the block are dropped
ClearDedup_PreOnly(id) ==
  /\ lastPreAlertTimes' = MapDelete(lastPreAlertTimes, id)
  /\ lastRemainingMinutes' = MapDelete(lastRemainingMinutes, id)
  /\ UNCHANGED <<lastAlertDates, lastNotificationTimes>>

\* the four delete(id) calls of updateTimeBlock and deleteTimeBlock
ClearDedup(id) ==
  /\ lastPreAlertTimes' = MapDelete(lastPreAlertTimes, id)
  /\ lastRemainingMinutes' = MapDelete(lastRemainingMinutes, id)
  /\ lastAlertDates' = MapDelete(lastAlertDates, id)
  /\ lastNotificationTimes' = MapDelete(lastNotificationTimes, id)

\* the edits of the edit form: a new task text (the form hands the whole
\* record over, id and createdAt included) or a new time of day
Patches ==
  {[task |-> "t2", id |-> 2, createdAt |-> 7],
   [startTime |-> At(DayOf(now), LastClockMinute)]}

\* mutant: the id and createdAt of updatedData win
MergeBlock_DataWins(originalBlock, updatedData) == updatedData @@ originalBlock

\* { ...originalBlock, ...updatedData, id: originalBlock.id, createdAt: originalBlock.createdAt }
MergeBlock(originalBlock, updatedData) ==
  [id |-> originalBlock.id, createdAt |-> originalBlock.createdAt]
  @@ updatedData @@ originalBlock

\* window.updateTimeBlock(id, updatedData); lastOp tells a return of false
updateTimeBlock(id, updatedData) ==
  LET blocks == getTimeSettings
      index == IndexOf(blocks, id)
  IN /\ edits < MaxEdits
     /\ edits' = edits + 1
     /\ lastOp' = IF index # 0 THEN "updateTimeBlock" ELSE "updateTimeBlock:false"
     /\ alerts' = <<>>
     /\ IF index # 0
        THEN LET originalBlock == blocks[index]
                 merged == MergeBlock(originalBlock, updatedData)
             IN /\ store' = saveTimeSettingsValue([blocks EXCEPT ![index] = merged], 0, now)
                /\ ClearDedup(id)
                /\ minuteMain' = [minuteMain EXCEPT ![id] = 0]
                /\ preCount' = [preCount EXCEPT ![id] = 0]
        ELSE UNCHANGED <<store, dedup, minuteMain, preCount>>
     /\ UNCHANGED <<settings, now, timeBlocks, mainCount, baseDay, timer, intervals, floatVars>>

\* window.deleteTimeBlock(id)
deleteTimeBlock(id) ==
  /\ edits < MaxEdits
  /\ edits' = edits + 1
  /\ lastOp' = "deleteTimeBlock"
  /\ alerts' = <<>>
  /\ store' = saveTimeSettingsValue(Filter(getTimeSettings, id), 0, now)
  /\ ClearDedup(id)
  /\ minuteMain' = [minuteMain EXCEPT ![id] = 0]
  /\ preCount' = [preCount EXCEPT ![id] = 0]
  /\ UNCHANGED <<settings, now, timeBlocks, mainCount, baseDay, timer, intervals, floatVars>>

\* a block as the create form hands it over: no id, createdAt, status or counts
NewBlock ==
  [task |-> "t3", startTime |-> At(DayOf(now), TriggerMinute), enabled |-> TRUE,
   preAlert |-> TRUE, reminderMode |-> "daily", weekdays |-> {}]

\* window.saveTimeSettings(blocks), called with the stored list plus one new block
saveTimeSettings(blocks) ==
  /\ edits < MaxEdits
  /\ edits' = edits + 1
  /\ lastOp' = "saveTimeSettings"
  /\ alerts' = <<>>
  /\ store' = saveTimeSettingsValue(blocks, FreshIdAt(edits), now)
  /\ UNCHANGED <<settings, now, timeBlocks, dedup, mainCount, minuteMain, preCount, baseDay, timer, intervals, floatVars>>

\* window.handlePreAlertTimeChange() with the two form values
handlePreAlertTimeChange(preAlertTime, globalAlertEnabled) ==
  LET preAlertCount == IF preAlertTime > 3 THEN 2 ELSE 1
      written == [preAlertTime |-> preAlertTime, preAlertCount |-> preAlertCount,
                  globalAlertEnabled |-> globalAlertEnabled]
  IN /\ edits < MaxEdits
     /\ edits' = edits + 1
     /\ lastOp' = "handlePreAlertTimeChange"
     /\ settings # written
     /\ settings' = written
     /\ alerts' = <<>>
     /\ preCount' = Zero
     /\ UNCHANGED <<store, now, timeBlocks, dedup, mainCount, minuteMain, baseDay, timer, intervals, floatVars>>

Next ==
  \/ Tick
  \/ \E id \in AllIds, updatedData \in Patches : updateTimeBlock(id, updatedData)
  \/ \E id \in AllIds : deleteTimeBlock(id)
  \/ saveTimeSettings(Append(getTimeSettings, NewBlock))
  \/ \E preAlertTime \in {3, 5}, globalAlertEnabled \in BOOLEAN :
       handlePreAlertTimeChange(preAlertTime, globalAlertEnabled)

Spec == Init /\ [][Next]_vars

(* ------------- the engine in an adverse environment --------------------- *)
\* a block written by an earlier version of the form: no weekdays field
WithoutWeekdays(b) == [f \in (DOMAIN b) \ {"weekdays"} |-> b[f]]

\* a block written before reminder modes existed: no reminderMode field
WithoutMode(b) == [f \in (DOMAIN b) \ {"reminderMode"} |-> b[f]]

EnvBlocks ==
  {Block(1, TRUE, "pending", TRUE, "daily", {}, Unlimited),
   Block(1, TRUE, "pending", TRUE, "weekly", {}, Unlimited),
   WithoutWeekdays(Block(1, TRUE, "pending", TRUE, "weekly", {}, Unlimited)),
   WithoutMode(Block(1, TRUE, "pending", TRUE, "weekly", {2}, Unlimited)),
   [Block(1, TRUE, "pending", FALSE, "daily", {}, 1) EXCEPT !.remainingCount = 0],
   Block(1, TRUE, "pending", FALSE, "daily", {}, 1)}

\* settings records that lack fields: the record handleFloatingOpacityChange
\* writes when it finds none, and a record without preAlertCount
PartialSettings ==
  {[floatingOpacity |-> 8],
   [preAlertTime |-> 3, globalAlertEnabled |-> TRUE]}

\* the store before and after initStorage has written the settings record
InitEnv ==
  /\ baseDay = 0
  /\ store \in {<<b1>> : b1 \in EnvBlocks} \cup {<<b1, SecondBlock>> : b1 \in EnvBlocks}
  /\ settings \in {NoSettings} \cup FormSettings \cup PartialSettings
  /\ now = At(FirstDay, FirstClockMinute)
  /\ timeBlocks = store
  /\ lastAlertDates = EmptyMap
  /\ lastNotificationTimes = EmptyMap
  /\ lastPreAlertTimes = EmptyMap
  /\ lastRemainingMinutes = EmptyMap
  /\ alerts = <<>>
  /\ mainCount = Zero
  /\ minuteMain = Zero
  /\ preCount = Zero
  /\ edits = 0
  /\ lastOp = "init"
  /\ timer = TRUE
  /\ intervals = 1
  /\ InitFloating

NextEnv == Tick \/ TickThrows \/ SleepTick

SpecEnv == InitEnv /\ [][NextEnv]_vars

(* ------------------ the engine on chosen calendar days ------------------ *)
\* month ends, year ends and leap days: 31 Jan 2024, 28 and 29 Feb 2024,
\* 28 Feb 2023, 30 Apr 2024, 31 Dec 2024, 31 Dec 2023, 28 Feb 2100, and
\* 15 Mar 2024 inside a month
CalDays == {19753, 19781, 19782, 19416, 19843, 20088, 19722, 47540, 19797}

\* a block whose stored startTime is the trigger time on clock day d
BlockOn(d, mode, wd) ==
  [Block(1, TRUE, "pending", FALSE, mode, wd, Unlimited) EXCEPT !.startTime = At(d, TriggerMinute)]

\* a daily block due today, or a weekly block whose stored startTime is any
\* day of the week and that is set for today's weekday; today is the last day
\* of the clock
InitCal ==
  /\ \/ /\ baseDay \in {d - MaxDay : d \in CalDays}
        /\ store = <<BlockOn(MaxDay, "daily", {})>>
        /\ now = At(MaxDay, FirstClockMinute)
     \/ /\ baseDay = CalWeekStart - MaxDay
        /\ \E sd \in MaxDay..(MaxDay + 6), nd \in MaxDay..(MaxDay + 6) :
             /\ store \in {<<BlockOn(sd, "weekly", wd)>> :
                             wd \in {w \in SUBSET (0..6) : (CalWeekStart + nd - MaxDay + 4) % 7 \in w}}
             /\ now = At(nd, FirstClockMinute)
  /\ settings = DefaultSettings
  /\ timeBlocks = store
  /\ lastAlertDates = EmptyMap
  /\ lastNotificationTimes = EmptyMap
  /\ lastPreAlertTimes = EmptyMap
  /\ lastRemainingMinutes = EmptyMap
  /\ alerts = <<>>
  /\ mainCount = Zero
  /\ minuteMain = Zero
  /\ preCount = Zero
  /\ edits = 0
  /\ lastOp = "init"
  /\ timer = TRUE
  /\ intervals = 1
  /\ InitFloating

NextCal == Tick

SpecCal == InitCal /\ [][NextCal]_vars

(* ------------------- the engine around the full hour -------------------- *)
\* trigger hours: midnight, the hours next to it, and noon
TriggerHours == {0, 1, 12, 23}

\* minute m of the day lies in the clock window around one of the hours
InHourWindow(m) ==
  \E h \in TriggerHours :
    (m - h * 60 + WindowBefore + 24 * 60) % (24 * 60) <= WindowBefore + WindowAfter

\* the next interval, or the start of the next minute, over midnight too
HourTimes(t) ==
  {t + TickMs : x \in {y \in {1} : t % MinuteMs < MaxSub * TickMs}}
  \cup {(t \div MinuteMs + 1) * MinuteMs :
          x \in {y \in {1} : InHourWindow(MinuteOfDay((t \div MinuteMs + 1) * MinuteMs))}}

HourTick == \E t \in HourTimes(now) : TickAt(t, {}, "HourTick")

\* a pre-alerting block due on the hour h of day FirstDay + 1, alone or before
\* a block due at 09:00; the clock starts WindowBefore minutes earlier
InitHour ==
  /\ baseDay = 0
  /\ \E h \in TriggerHours, mode \in {"daily", "once"} :
       /\ store \in
            {<<[Block(1, TRUE, "pending", TRUE, mode, {}, Unlimited)
                  EXCEPT !.startTime = At(FirstDay + 1, h * 60)]>> \o rest :
               rest \in {<<>>, <<SecondBlock>>}}
       /\ now = At(FirstDay + 1, h * 60) - WindowBefore * MinuteMs
  /\ settings \in FormSettings
  /\ timeBlocks = store
  /\ lastAlertDates = EmptyMap
  /\ lastNotificationTimes = EmptyMap
  /\ lastPreAlertTimes = EmptyMap
  /\ lastRemainingMinutes = EmptyMap
  /\ alerts = <<>>
  /\ mainCount = Zero
  /\ minuteMain = Zero
  /\ preCount = Zero
  /\ edits = 0
  /\ lastOp = "init"
  /\ timer = TRUE
  /\ intervals = 1
  /\ InitFloating

NextHour == HourTick

SpecHour == InitHour /\ [][NextHour]_vars

(* ------------------- blocks dated on other days ------------------------- *)
\* days between the first day of the clock and the date part of startTime
DateShifts == {0 - 1, 0, 1, 7}

\* the block with the same time of day, k days later
ShiftDate(b, k) == [b EXCEPT !.startTime = @ + k * DayMs]

\* one stored block, dated before, on or after the first day
InitDate ==
  /\ baseDay = 0
  /\ store \in {<<ShiftDate(b, k)>> : b \in FirstBlocks, k \in DateShifts}
  /\ settings \in FormSettings
  /\ now = At(FirstDay, FirstClockMinute)
  /\ timeBlocks = store
  /\ lastAlertDates = EmptyMap
  /\ lastNotificationTimes = EmptyMap
  /\ lastPreAlertTimes = EmptyMap
  /\ lastRemainingMinutes = EmptyMap
  /\ alerts = <<>>
  /\ mainCount = Zero
  /\ minuteMain = Zero
  /\ preCount = Zero
  /\ edits = 0
  /\ lastOp = "init"
  /\ timer = TRUE
  /\ intervals = 1
  /\ InitFloating

NextDate == Tick

SpecDate == InitDate /\ [][NextDate]_vars

(* ---------------------- saving lists of any shape ---------------------- *)
\* the fields saveTimeSettings fills in when they are missing
FilledFields == {"id", "createdAt", "status", "preAlert", "reminderCount", "remainingCount"}

\* blocks as a caller may hand them over: any of the filled fields missing,
\* id, createdAt and status possibly falsy
RawBlocks ==
  {[f \in (DOMAIN full) \ missing |-> full[f]] :
     missing \in SUBSET FilledFields,
     full \in {[Block(1, TRUE, st, TRUE, "daily", {}, 2)
                 EXCEPT !.id = id, !.createdAt = createdAt, !.remainingCount = 1] :
                 id \in {0, 1}, createdAt \in {0, 7}, st \in {"", "disabled"}}}

\* window.saveTimeSettings(blocks) for any list, called up to MaxSaves times
saveAgain(blocks) ==
  /\ edits < MaxSaves
  /\ edits' = edits + 1
  /\ lastOp' = "saveAgain"
  /\ alerts' = <<>>
  /\ store' = saveTimeSettingsValue(blocks, FreshIdAt(edits), now)
  /\ UNCHANGED <<settings, now, timeBlocks, dedup, mainCount, minuteMain, preCount,
                 baseDay, timer, intervals, floatVars>>

\* the store as initStorage leaves it, one minute before the trigger minute
InitSave ==
  /\ baseDay = 0
  /\ store = <<>>
  /\ settings = DefaultSettings
  /\ now = At(FirstDay, TriggerMinute - 1)
  /\ timeBlocks = store
  /\ lastAlertDates = EmptyMap
  /\ lastNotificationTimes = EmptyMap
  /\ lastPreAlertTimes = EmptyMap
  /\ lastRemainingMinutes = EmptyMap
  /\ alerts = <<>>
  /\ mainCount = Zero
  /\ minuteMain = Zero
  /\ preCount = Zero
  /\ edits = 0
  /\ lastOp = "init"
  /\ timer = TRUE
  /\ intervals = 1
  /\ InitFloating

\* a poll tick of the minute before the trigger minute
SaveTick ==
  \E t \in {now + TickMs : x \in {y \in {1} : MinuteOfDay(now) < TriggerMinute}} :
     TickAt(t, {}, "Tick")

NextSave ==
  \/ \E b \in RawBlocks : saveAgain(<<b>>)
  \/ saveAgain(getTimeSettings)
  \/ SaveTick

SpecSave == InitSave /\ [][NextSave]_vars

(* --------------------------- the polling timer -------------------------- *)
\* mutant: the guards never find a timer set
TimerSet_Never == FALSE

\* this.timer as a condition: if (this.timer) return; if (!this.timer)
TimerSet == timer

\* this.timer = setInterval(...), reached only past the guard
SetInterval ==
  /\ intervals < MaxIntervals
  /\ timer' = TRUE
  /\ intervals' = intervals + 1

\* AlertManager.startGlobalTimer(); lastOp tells whether an interval was set
startGlobalTimer ==
  /\ IF TimerSet
     THEN lastOp' = "startGlobalTimer" /\ UNCHANGED <<timer, intervals>>
     ELSE lastOp' = "startGlobalTimer:set" /\ SetInterval
  /\ alerts' = <<>>
  /\ UNCHANGED <<store, settings, now, timeBlocks, dedup, mainCount, minuteMain,
                 preCount, edits, baseDay, floatVars>>

\* AlertManager.startTimeBlock(block)
startTimeBlock(block) ==
  /\ Len(timeBlocks) < MaxBlocks
  /\ timeBlocks' = Append(timeBlocks, block)
  /\ IF ~TimerSet
     THEN IF TimerSet
          THEN lastOp' = "startTimeBlock" /\ UNCHANGED <<timer, intervals>>
          ELSE lastOp' = "startTimeBlock:set" /\ SetInterval
     ELSE lastOp' = "startTimeBlock" /\ UNCHANGED <<timer, intervals>>
  /\ alerts' = <<>>
  /\ UNCHANGED <<store, settings, now, dedup, mainCount, minuteMain, preCount,
                 edits, baseDay, floatVars>>

\* AlertManager.cleanup(): clearInterval of the interval this.timer holds
cleanup ==
  /\ intervals' = IF timer THEN intervals - 1 ELSE intervals
  /\ timer' = FALSE
  /\ lastOp' = "cleanup"
  /\ alerts' = <<>>
  /\ UNCHANGED <<store, settings, now, timeBlocks, dedup, mainCount, minuteMain,
                 preCount, edits, baseDay, floatVars>>

\* one stored block; the constructor has set the interval
InitTimer == Init /\ Len(store) = 1

NextTimer ==
  \/ Tick
  \/ startGlobalTimer
  \/ \E block \in {SecondBlock} : startTimeBlock(block)
  \/ cleanup

SpecTimer == InitTimer /\ [][NextTimer]_vars

(* --------------------------- the floating window ------------------------ *)
\* everything but the floating window's state and lastOp
engineVars ==
  <<store, settings, now, timeBlocks, dedup, alerts, mainCount, minuteMain, preCount,
    edits, baseDay, timer, intervals>>

\* if (window.__floatingOpening) return ...
Opening == floatingOpening

\* window.floatingWin && !window.floatingWin.isDestroyed()
WindowExists == floatingWin # 0 /\ floatingWin \in liveWindows

\* window.openFloatingWindow(): ignored while a creation is in progress; an
\* existing window is woken; otherwise createBrowserWindow either throws or
\* returns a new window whose creation callback runs later
openFloatingWindow ==
  /\ closedLast' = FALSE
  /\ IF Opening
     THEN /\ lastOp' = "openFloatingWindow:ignored"
          /\ UNCHANGED <<floatingOpening, floatingWin, floatingWindows, floatingVisible,
                         stateVisible, liveWindows, pendingCallbacks, windowsCreated>>
     ELSE IF WindowExists
     THEN /\ lastOp' = "openFloatingWindow:woken"
          /\ stateVisible' = TRUE
          /\ floatingVisible' = TRUE
          /\ UNCHANGED <<floatingOpening, floatingWin, floatingWindows, liveWindows,
                         pendingCallbacks, windowsCreated>>
     ELSE \/ /\ lastOp' = "openFloatingWindow:threw"
             /\ floatingOpening' = FALSE
             /\ UNCHANGED <<floatingWin, floatingWindows, floatingVisible, stateVisible,
                            liveWindows, pendingCallbacks, windowsCreated>>
          \/ /\ windowsCreated < MaxWindows
             /\ lastOp' = "openFloatingWindow:created"
             /\ floatingOpening' = TRUE
             /\ windowsCreated' = windowsCreated + 1
             /\ liveWindows' = liveWindows \cup {windowsCreated + 1}
             /\ pendingCallbacks' = pendingCallbacks \cup {windowsCreated + 1}
             /\ floatingWin' = windowsCreated + 1
             /\ floatingWindows' = floatingWindows \cup {windowsCreated + 1}
             /\ UNCHANGED <<floatingVisible, stateVisible>>
  /\ UNCHANGED <<pendingClosed, engineVars>>

\* the callback handed to createBrowserWindow, run for window win.  For a
\* window destroyed in the meantime win.once either registers nothing or
\* throws before the state is written; finally resets __floatingOpening.
CreationCallback(win) ==
  /\ win \in pendingCallbacks
  /\ pendingCallbacks' = pendingCallbacks \ {win}
  /\ floatingOpening' = FALSE
  /\ \/ /\ lastOp' = "CreationCallback"
        /\ stateVisible' = TRUE
        /\ floatingVisible' = TRUE
     \/ /\ win \notin liveWindows
        /\ lastOp' = "CreationCallback:threw"
        /\ UNCHANGED <<stateVisible, floatingVisible>>
  /\ UNCHANGED <<floatingWin, floatingWindows, liveWindows, pendingClosed, windowsCreated,
                 closedLast, engineVars>>

\* the creation callback of a window destroyed before its page was loaded
\* is never called
CallbackDropped(win) ==
  /\ win \in pendingCallbacks \ liveWindows
  /\ pendingCallbacks' = pendingCallbacks \ {win}
  /\ lastOp' = "CallbackDropped"
  /\ UNCHANGED <<floatingOpening, floatingWin, floatingWindows, floatingVisible, stateVisible,
                 liveWindows, pendingClosed, windowsCreated, closedLast, engineVars>>

\* window.closeFloatingWindow(): every registered window is hidden, closed
\* and destroyed; their 'closed' events are delivered later
closeFloatingWindow ==
  LET wins == floatingWindows \cup (IF floatingWin # 0 THEN {floatingWin} ELSE {})
  IN /\ lastOp' = "closeFloatingWindow"
     /\ closedLast' = TRUE
     /\ liveWindows' = liveWindows \ wins
     /\ pendingClosed' = pendingClosed \cup (wins \cap liveWindows)
     /\ floatingWin' = 0
     /\ floatingWindows' = {}
     /\ stateVisible' = FALSE
     /\ floatingVisible' = FALSE
     /\ UNCHANGED <<floatingOpening, pendingCallbacks, windowsCreated, engineVars>>

\* widgetApi.close() of the floating page: window.close() on itself
widgetClose(win) ==
  /\ win \in liveWindows \ pendingCallbacks
  /\ liveWindows' = liveWindows \ {win}
  /\ pendingClosed' = pendingClosed \cup {win}
  /\ lastOp' = "widgetClose"
  /\ UNCHANGED <<floatingOpening, floatingWin, floatingWindows, floatingVisible, stateVisible,
                 pendingCallbacks, windowsCreated, closedLast, engineVars>>

\* win.on('closed', ...) run for window win
ClosedEvent(win) ==
  /\ win \in pendingClosed
  /\ pendingClosed' = pendingClosed \ {win}
  /\ lastOp' = "ClosedEvent"
  /\ floatingWin' = 0
  /\ floatingVisible' = FALSE
  /\ floatingWindows' = floatingWindows \ {win}
  /\ UNCHANGED <<floatingOpening, stateVisible, liveWindows, pendingCallbacks,
                 windowsCreated, closedLast, engineVars>>

\* one disabled block stored; only the floating window is operated
InitFloat == Init /\ Len(store) = 1 /\ ~store[1].enabled /\ settings = DefaultSettings

NextFloat ==
  \/ openFloatingWindow
  \/ closeFloatingWindow
  \/ \E win \in 1..MaxWindows : CreationCallback(win)
  \/ \E win \in 1..MaxWindows : CallbackDropped(win)
  \/ \E win \in 1..MaxWindows : widgetClose(win)
  \/ \E win \in 1..MaxWindows : ClosedEvent(win)

SpecFloat == InitFloat /\ [][NextFloat]_vars

(* ------------------------- vocabulary of the claims --------------------- *)
Sent(as, kind, id) == \E i \in 1..Len(as) : as[i].kind = kind /\ as[i].id = id

\* the stored settings switch all alerts off
SwitchOff == Has(settings, "globalAlertEnabled") /\ settings.globalAlertEnabled = FALSE

\* the step is a poll tick
TickStep == now' # now

\* the stored list holds the block b unchanged after the step
KeptInStore(b) == \E j \in 1..Len(store') : store'[j] = b

EntrySame(m1, m2, id) == MapHas(m1, id) = MapHas(m2, id) /\ (MapHas(m1, id) => m1[id] = m2[id])

\* none of the four dedup entries of id is changed by the step
DedupSameFor(id) ==
  /\ EntrySame(lastAlertDates, lastAlertDates', id)
  /\ EntrySame(lastNotificationTimes, lastNotificationTimes', id)
  /\ EntrySame(lastPreAlertTimes, lastPreAlertTimes', id)
  /\ EntrySame(lastRemainingMinutes, lastRemainingMinutes', id)

\* b is a recurring block that the pass evaluates and whose hour and minute
\* equal those of clock value t, on a weekday it is set for
Qualifies(b, t) ==
  /\ Evaluated(b)
  /\ ModeOf(b) \in {"daily", "weekly"}
  /\ WeekdayOk(b, t)
  /\ MainMatch(b, t)

(* -------------------------------- C1 ------------------------------------ *)
\* C1: after every tick that falls in the matching minute of a recurring,
\* enabled, pending block while global alerts are on, exactly one main alert
\* has been dispatched for the block in that minute (counted since the last
\* edit of the block): the first such tick dispatches it, no later one does.
C1_OnePerMinute ==
  (lastOp = "Tick" /\ ~SwitchOff) =>
    \A i \in 1..Len(store) :
      Qualifies(store[i], now) => minuteMain[store[i].id] = 1

\* a later tick of the matching minute that dispatched nothing for a block
\* that has had its alert in this minute
C1_Witness ==
  /\ lastOp = "Tick"
  /\ ~SwitchOff
  /\ now % MinuteMs >= DebounceMs
  /\ \E i \in 1..Len(store) :
       /\ Qualifies(store[i], now)
       /\ minuteMain[store[i].id] = 1
       /\ ~Sent(alerts, "main", store[i].id)

(* -------------------------------- C2 ------------------------------------ *)
\* C2: after a tick in which a daily or weekly block fired its main alert,
\* the stored block has the rolled-forward startTime and the remainingCount
\* the tick computed.
C2_StoreReflectsFire ==
  [][TickStep =>
       \A i \in 1..Len(store) :
         (ModeOf(store[i]) # "once" /\ Sent(alerts', "main", store[i].id)) =>
           \E j \in 1..Len(store') :
             /\ store'[j].id = store[i].id
             /\ store'[j].startTime = Reschedule(CountStep(store[i])).startTime
             /\ store'[j].remainingCount = Reschedule(CountStep(store[i])).remainingCount]_vars

(* -------------------------------- C3 ------------------------------------ *)
\* C3: a daily block with reminderCount = 2 that started with remainingCount
\* = 2 has at most two main alerts, and once it has had two its stored
\* remainingCount is 0 and its status is disabled.
C3_CountExhaustion ==
  edits = 0 =>
    \A i \in 1..Len(store) :
      (ModeOf(store[i]) = "daily" /\ store[i].reminderCount = 2) =>
        /\ mainCount[store[i].id] <= 2
        /\ mainCount[store[i].id] = 2 =>
             (store[i].remainingCount = 0 /\ store[i].status = "disabled")

(* -------------------------------- C4 ------------------------------------ *)
\* C4: a stored once block has never fired; the tick in which it fires its
\* main alert dispatches it once and removes the block from the store; and a
\* block that has fired and is gone from the store never comes back.
C4_OnceDeleted ==
  [][/\ \A i \in 1..Len(store) :
          ModeOf(store[i]) = "once" =>
            /\ mainCount[store[i].id] = 0
            /\ mainCount'[store[i].id] > 0 =>
                 (mainCount'[store[i].id] = 1 /\ store[i].id \notin StoreIds(store'))
     /\ \A id \in AllIds :
          (mainCount[id] > 0 /\ id \notin StoreIds(store)) =>
            (id \notin StoreIds(store') /\ mainCount'[id] = mainCount[id])]_vars

\* a tick has just fired a once block, which is gone from the store
C4_Witness ==
  /\ lastOp = "Tick"
  /\ \E i \in 1..Len(alerts) :
       /\ alerts[i].kind = "main"
       /\ alerts[i].id \notin StoreIds(store)
       /\ \E j \in 1..Len(timeBlocks) :
            timeBlocks[j].id = alerts[i].id /\ ModeOf(timeBlocks[j]) = "once"

(* -------------------------------- C5 ------------------------------------ *)
\* C5: a tick on a weekday that a weekly block is not set for dispatches
\* neither alert for the block and leaves its stored record and its four
\* dedup entries as they were, whatever the hour and minute.
C5_WeekdayGate ==
  [][TickStep =>
       \A i \in 1..Len(store) :
         (ModeOf(store[i]) = "weekly" /\ getDay(now') \notin WeekdaysOf(store[i])) =>
           /\ ~Sent(alerts', "main", store[i].id)
           /\ ~Sent(alerts', "pre", store[i].id)
           /\ KeptInStore(store[i])
           /\ DedupSameFor(store[i].id)]_vars

\* a tick in the matching minute of an enabled weekly block on a weekday it
\* is not set for
C5_Witness ==
  /\ lastOp = "Tick"
  /\ ~SwitchOff
  /\ \E i \in 1..Len(store) :
       /\ Evaluated(store[i])
       /\ ModeOf(store[i]) = "weekly"
       /\ getDay(now) \notin WeekdaysOf(store[i])
       /\ MainMatch(store[i], now)
       /\ mainCount[store[i].id] = 0

(* -------------------------------- C6 ------------------------------------ *)
\* C6: with preAlertTime = 3 and preAlertCount = 1, a pre-alerting block that
\* is polled in every minute from three minutes before its trigger time up
\* to the trigger minute has had exactly one pre-alert after every one of
\* those ticks.  (On the first day no minute of the clock window is skipped
\* and the dedup maps start empty; no edit is made.)
C6_ExactlyOnePreAlert ==
  (lastOp = "Tick" /\ edits = 0 /\ DayOf(now) = FirstDay /\ settings = DefaultSettings) =>
    \A i \in 1..Len(store) :
      (/\ Evaluated(store[i])
       /\ store[i].preAlert
       /\ WeekdayOk(store[i], now)
       /\ ModeOf(store[i]) # "once"
       /\ TimeDiff(store[i], now) \in 0..3) =>
        preCount[store[i].id] = 1

(* -------------------------------- C7 ------------------------------------ *)
\* C7: with preAlertCount >= 1, no block has had more pre-alerts on one day
\* under unchanged settings and without an edit than preAlertCount.
C7_PreAlertBudget ==
  (Has(settings, "preAlertCount") /\ settings.preAlertCount >= 1) =>
    \A id \in AllIds : preCount[id] <= settings.preAlertCount

(* -------------------------------- C8 ------------------------------------ *)
\* C8: a tick that evaluates an enabled, pending, pre-alerting block inside
\* its pre-alert window, with no pre-alert recorded for that block,
\* dispatches the block's pre-alert, whatever records other blocks hold.
C8_GuardPerBlock ==
  [][(TickStep /\ ~SwitchOff) =>
       \A i \in 1..Len(store) :
         (/\ Evaluated(store[i])
          /\ PreAlertWindow(store[i], TickSettings, now')
          /\ WeekdayOk(store[i], now')
          /\ ~MapHas(lastPreAlertTimes, store[i].id)
          /\ ~MapHas(lastRemainingMinutes, store[i].id)) =>
           Sent(alerts', "pre", store[i].id)]_vars

(* -------------------------------- C9 ------------------------------------ *)
\* C9: a tick that finds globalAlertEnabled false dispatches nothing and
\* leaves the stored block list and the four dedup maps as they were.
C9_GlobalOffNoOp ==
  [][(TickStep /\ SwitchOff) =>
       (alerts' = <<>> /\ store' = store /\ dedup' = dedup)]_vars

\* a tick with the switch off in the matching minute of a block that would
\* otherwise have fired
C9_Witness ==
  /\ lastOp = "Tick"
  /\ SwitchOff
  /\ \E i \in 1..Len(store) :
       /\ Evaluated(store[i])
       /\ WeekdayOk(store[i], now)
       /\ MainMatch(store[i], now)
       /\ ~MapHas(lastAlertDates, store[i].id)

(* -------------------------------- C10 ----------------------------------- *)
\* C10: a tick dispatches neither alert for a block that is not enabled or
\* whose status is not pending, and leaves its stored record and its four
\* dedup entries as they were.
C10_SkippedBlocks ==
  [][TickStep =>
       \A i \in 1..Len(store) :
         ~(store[i].enabled /\ store[i].status = "pending") =>
           /\ ~Sent(alerts', "main", store[i].id)
           /\ ~Sent(alerts', "pre", store[i].id)
           /\ KeptInStore(store[i])
           /\ DedupSameFor(store[i].id)]_vars

\* a tick with alerts on in the matching minute of a block that is not
\* enabled or not pending
C10_Witness ==
  /\ lastOp = "Tick"
  /\ ~SwitchOff
  /\ \E i \in 1..Len(store) :
       /\ ~(store[i].enabled /\ store[i].status = "pending")
       /\ store[i].preAlert
       /\ MainMatch(store[i], now)
       /\ mainCount[store[i].id] = 0

(* -------------------------------- C11 ----------------------------------- *)
\* C11: in a tick in which the dispatcher throws for one block, every block
\* later in the list that is enabled and pending, is in its matching minute
\* on a weekday it is set for and has no main-alert record, still has its
\* main alert dispatched in that tick.
C11_ThrowContained ==
  [][TickStep =>
       \A i \in 1..Len(store) : \A j \in 1..Len(store) :
         (/\ i < j
          /\ Sent(alerts', "thrown", store[i].id)
          /\ store[j].enabled /\ store[j].status = "pending"
          /\ MinuteOfDay(store[j].startTime) = MinuteOfDay(now')
          /\ (ModeOf(store[j]) = "weekly" => getDay(now') \in WeekdaysOf(store[j]))
          /\ ~MapHas(lastAlertDates, store[j].id)
          /\ ~MapHas(lastNotificationTimes, store[j].id)) =>
           Sent(alerts', "main", store[j].id)]_vars

(* -------------------------------- C12 ----------------------------------- *)
\* the ids whose stored block the step changed or removed
EditedIds ==
  {id \in StoreIds(store) :
     \A j \in 1..Len(store') : store'[j].id = id => store'[j] \notin {store[i] : i \in 1..Len(store)}}

\* C12: a step of updateTimeBlock or deleteTimeBlock that changes or removes
\* the stored block id leaves no entry for id in any of the four dedup maps;
\* and a tick in the matching minute of an enabled, pending recurring block
\* that has no main-alert record dispatches the block's main alert, so that a
\* block moved to a later minute of a day on which it has fired fires again.
C12_ClearedOnEdit ==
  [][/\ (lastOp' \in {"updateTimeBlock", "deleteTimeBlock"} /\ edits' # edits) =>
          \A id \in EditedIds :
            /\ ~MapHas(lastAlertDates', id)
            /\ ~MapHas(lastNotificationTimes', id)
            /\ ~MapHas(lastPreAlertTimes', id)
            /\ ~MapHas(lastRemainingMinutes', id)
     /\ (TickStep /\ ~SwitchOff) =>
          \A i \in 1..Len(store) :
            (/\ Qualifies(store[i], now')
             /\ ~MapHas(lastAlertDates, store[i].id)
             /\ ~MapHas(lastNotificationTimes, store[i].id)) =>
              Sent(alerts', "main", store[i].id)]_vars

\* a block that fired at its trigger minute, was then moved to a later minute
\* of the same day and has just fired a second time there
C12_Witness ==
  /\ lastOp = "Tick"
  /\ edits = 1
  /\ DayOf(now) = FirstDay
  /\ \E i \in 1..Len(store) :
       /\ MinuteOfDay(store[i].startTime) = LastClockMinute
       /\ MinuteOfDay(now) = LastClockMinute
       /\ mainCount[store[i].id] = 2
       /\ Sent(alerts, "main", store[i].id)

(* -------------------------------- C13 ----------------------------------- *)
\* C13: the first tick after saveTimeSettings has replaced the stored list
\* starts from empty dedup maps: every main-alert and pre-alert record that
\* exists after that tick was written by that tick.
C13_ReloadResetsDedup ==
  [][(TickStep /\ lastOp = "saveTimeSettings") =>
       \A id \in AllIds :
         /\ MapHas(lastAlertDates', id) => Sent(alerts', "main", id)
         /\ MapHas(lastPreAlertTimes', id) => Sent(alerts', "pre", id)]_vars

(* -------------------------------- C14 ----------------------------------- *)
\* C14: a tick whose hour and minute differ from those of a block's
\* startTime dispatches no main alert for the block; so a block whose
\* trigger minute passed without a tick gets no main alert at any later tick
\* of that day.
C14_NoCatchUp ==
  [][TickStep =>
       \A i \in 1..Len(store) :
         MinuteOfDay(store[i].startTime) # MinuteOfDay(now') =>
           ~Sent(alerts', "main", store[i].id)]_vars

\* the first tick after a sleep through the whole trigger minute of a block
\* that is enabled and pending and has not fired
C14_Witness ==
  /\ lastOp = "SleepTick"
  /\ ~SwitchOff
  /\ DayOf(now) = FirstDay
  /\ MinuteOfDay(now) = TriggerMinute + 1
  /\ \E i \in 1..Len(store) :
       /\ Evaluated(store[i])
       /\ ModeOf(store[i]) = "daily"
       /\ MinuteOfDay(store[i].startTime) = TriggerMinute
       /\ mainCount[store[i].id] = 0
       /\ ~MapHas(lastAlertDates, store[i].id)

(* -------------------------------- C15 ----------------------------------- *)
\* C15: every block with reminderCount # -1, in the store and in the
\* engine's working copy, has remainingCount >= 0.
C15_RemainingNonNegative ==
  /\ \A i \in 1..Len(store) :
       store[i].reminderCount # 0 - 1 => store[i].remainingCount >= 0
  /\ \A i \in 1..Len(timeBlocks) :
       timeBlocks[i].reminderCount # 0 - 1 => timeBlocks[i].remainingCount >= 0

\* a counted block that had nothing left has just fired
C15_Witness ==
  /\ lastOp = "Tick"
  /\ \E i \in 1..Len(timeBlocks) :
       /\ timeBlocks[i].reminderCount = 1
       /\ store[i].remainingCount = 0
       /\ timeBlocks[i].remainingCount = 0
       /\ Sent(alerts, "main", timeBlocks[i].id)

C17_EmptyWeekdaysNeverFire ==
  [][TickStep =>
       \A i \in 1..Len(store) :
         (/\ Has(store[i], "reminderMode") /\ store[i].reminderMode = "weekly"
          /\ (~Has(store[i], "weekdays") \/ store[i].weekdays = {})) =>
           /\ ~Sent(alerts', "main", store[i].id)
           /\ ~Sent(alerts', "pre", store[i].id)
           /\ ~Sent(alerts', "thrown", store[i].id)
           /\ DedupSameFor(store[i].id)]_vars

\* a tick in the trigger minute of a weekly block without a weekdays field,
\* in which the block after it has fired
C17_Witness ==
  /\ lastOp = "Tick"
  /\ ~SwitchOff
  /\ Len(store) = 2
  /\ Has(store[1], "reminderMode")
  /\ store[1].reminderMode = "weekly"
  /\ ~Has(store[1], "weekdays")
  /\ Evaluated(store[1])
  /\ MinuteOfDay(store[1].startTime) = MinuteOfDay(now)
  /\ Sent(alerts, "main", store[2].id)

(* -------------------------------- C18 ----------------------------------- *)
\* the calendar, written down independently of the Date operators above:
\* months are 1..12 here
LeapYear(y) == IF y % 100 = 0 THEN y % 400 = 0 ELSE y % 4 = 0

DaysIn(y, m) ==
  IF m = 2 THEN (IF LeapYear(y) THEN 29 ELSE 28)
  ELSE IF m \in {4, 6, 9, 11} THEN 30 ELSE 31

\* days from 1 January 1970 to the calendar date c = <<year, month, day>>
CivilToDay(c) ==
  LET y == IF c[2] <= 2 THEN c[1] - 1 ELSE c[1]
      era == y \div 400
      yoe == y - era * 400
      mp == IF c[2] > 2 THEN c[2] - 3 ELSE c[2] + 9
      doy == (153 * mp + 2) \div 5 + c[3] - 1
      doe == yoe * 365 + yoe \div 4 - yoe \div 100 + doy
  IN era * 146097 + doe - 719468

\* the calendar date of day number n
CivilOf(n) ==
  CHOOSE c \in ((1970 + n \div 366)..(1970 + n \div 365)) \X (1..12) \X (1..31) :
    c[3] <= DaysIn(c[1], c[2]) /\ CivilToDay(c) = n

NextCalendarDay(c) ==
  IF c[3] < DaysIn(c[1], c[2]) THEN <<c[1], c[2], c[3] + 1>>
  ELSE IF c[2] < 12 THEN <<c[1], c[2] + 1, 1>>
  ELSE <<c[1] + 1, 1, 1>>

\* C18: the startTime a tick computes for a daily block that fires is the same
\* time of day on the calendar day after the day of the block's stored
\* startTime, across month ends, leap days and year ends.
C18_DailyNextCalendarDay ==
  [][TickStep =>
       \A i \in 1..Len(store) :
         (ModeOf(store[i]) = "daily" /\ Sent(alerts', "main", store[i].id)) =>
           /\ baseDay + DayOf(timeBlocks'[i].startTime)
                = CivilToDay(NextCalendarDay(CivilOf(baseDay + DayOf(store[i].startTime))))
           /\ timeBlocks'[i].startTime % DayMs = store[i].startTime % DayMs]_vars

\* a daily block has just fired on 31 December 2024 and is set for
\* 1 January 2025
C18_Witness ==
  /\ lastOp = "Tick"
  /\ Len(store) = 1
  /\ ModeOf(store[1]) = "daily"
  /\ Sent(alerts, "main", store[1].id)
  /\ CivilOf(baseDay + DayOf(store[1].startTime)) = <<2024, 12, 31>>
  /\ CivilOf(baseDay + DayOf(timeBlocks[1].startTime)) = <<2025, 1, 1>>

(* -------------------------------- C19 ----------------------------------- *)
\* weekday of clock value t, 0 = Sunday
WeekdayAt(t) == (baseDay + t \div DayMs + 4) % 7

\* C19: the startTime a tick computes for a weekly block with a non-empty
\* weekdays set that fires is the stored startTime plus k days, k the
\* smallest of 1..7 for which (weekday + k) mod 7 is selected; its weekday is
\* selected and its time of day is unchanged.
C19_WeeklyNextSelectedDay ==
  [][TickStep =>
       \A i \in 1..Len(store) :
         (/\ ModeOf(store[i]) = "weekly"
          /\ store[i].weekdays # {}
          /\ Sent(alerts', "main", store[i].id)) =>
           \E k \in 1..7 :
             /\ (WeekdayAt(store[i].startTime) + k) % 7 \in store[i].weekdays
             /\ \A j \in 1..(k - 1) :
                  (WeekdayAt(store[i].startTime) + j) % 7 \notin store[i].weekdays
             /\ timeBlocks'[i].startTime = store[i].startTime + k * DayMs
             /\ WeekdayAt(timeBlocks'[i].startTime) \in store[i].weekdays]_vars

\* a block set for Monday, Wednesday and Friday whose startTime was a
\* Wednesday has just fired and is set for the Friday two days on
C19_Witness ==
  /\ lastOp = "Tick"
  /\ Len(store) = 1
  /\ ModeOf(store[1]) = "weekly"
  /\ store[1].weekdays = {1, 3, 5}
  /\ Sent(alerts, "main", store[1].id)
  /\ WeekdayAt(store[1].startTime) = 3
  /\ WeekdayAt(timeBlocks[1].startTime) = 5
  /\ timeBlocks[1].startTime = store[1].startTime + 2 * DayMs

(* -------------------------------- C20 ----------------------------------- *)
\* the settings the claim names
NamedDefaults == [globalAlertEnabled |-> TRUE, preAlertTime |-> 3, preAlertCount |-> 1]

\* the pass over the stored list at clock value t under the settings s, with
\* every notification delivered
PassUnder(s, t) ==
  EvalFrom([mem |-> store, store |-> store,
            lad |-> lastAlertDates, lnt |-> lastNotificationTimes,
            lpt |-> lastPreAlertTimes, lrm |-> lastRemainingMinutes,
            alerts |-> <<>>, fails |-> {}],
           1, s, t)

\* C20: with no settings record in the store, a tick does what the pass over
\* the list does under globalAlertEnabled = true, preAlertTime = 3 and
\* preAlertCount = 1.
C20_AbsentSettingsDefault ==
  [][(TickStep /\ settings = [absent |-> TRUE] /\ lastOp' # "TickThrows") =>
       /\ alerts' = PassUnder(NamedDefaults, now').alerts
       /\ timeBlocks' = PassUnder(NamedDefaults, now').mem
       /\ store' = PassUnder(NamedDefaults, now').store
       /\ lastAlertDates' = PassUnder(NamedDefaults, now').lad
       /\ lastNotificationTimes' = PassUnder(NamedDefaults, now').lnt
       /\ lastPreAlertTimes' = PassUnder(NamedDefaults, now').lpt
       /\ lastRemainingMinutes' = PassUnder(NamedDefaults, now').lrm]_vars

\* with no settings record, a tick three minutes before the trigger time has
\* just sent a pre-alert
C20_Witness ==
  /\ lastOp = "Tick"
  /\ settings = [absent |-> TRUE]
  /\ \E i \in 1..Len(alerts) : alerts[i].kind = "pre" /\ alerts[i].remaining = 3

(* -------------------------------- C21 ----------------------------------- *)
\* the record s with the named default put in for every field it lacks
Completed(s) == s @@ NamedDefaults

\* C21: with a settings record that lacks preAlertTime or preAlertCount, a
\* tick raises no exception and does what the pass over the list does under
\* the record with the defaults (true, 3, 1) in place of the missing fields.
C21_MissingFieldsDefault ==
  [][(/\ TickStep
      /\ lastOp' # "TickThrows"
      /\ ~Has(settings, "absent")
      /\ (~Has(settings, "preAlertTime") \/ ~Has(settings, "preAlertCount"))) =>
       /\ alerts' = PassUnder(Completed(settings), now').alerts
       /\ lastPreAlertTimes' = PassUnder(Completed(settings), now').lpt
       /\ lastRemainingMinutes' = PassUnder(Completed(settings), now').lrm]_vars

(* -------------------------------- C22 ----------------------------------- *)
\* C22: no step changes the id or the createdAt of a stored block: a step
\* that keeps or lengthens the list leaves both as they were at every
\* position, and every block of a shortened list was in the list before with
\* the same id and createdAt.
C22_IdAndCreatedAtKept ==
  [][/\ Len(store') >= Len(store) =>
          \A i \in 1..Len(store) :
            /\ store'[i].id = store[i].id
            /\ store'[i].createdAt = store[i].createdAt
     /\ Len(store') < Len(store) =>
          \A j \in 1..Len(store') : \E i \in 1..Len(store) :
            /\ store'[j].id = store[i].id
            /\ store'[j].createdAt = store[i].createdAt]_vars

\* block 1 has just been updated with data that carried another id and
\* another createdAt
C22_Witness ==
  /\ lastOp = "updateTimeBlock"
  /\ \E i \in 1..Len(store) :
       store[i].task = "t2" /\ store[i].id = 1 /\ store[i].createdAt = 1

C24_PreAlertBeforeTheHour ==
  (/\ lastOp = "HourTick"
   /\ ~SwitchOff
   /\ store # <<>>
   /\ store[1].enabled /\ store[1].status = "pending" /\ store[1].preAlert
   /\ MinuteOfDay(store[1].startTime) % 60 = 0
   /\ MinuteOfDay(now) = (MinuteOfDay(store[1].startTime) + 24 * 60 - 1) % (24 * 60)) =>
    preCount[store[1].id] >= 1

(* -------------------------------- C25 ----------------------------------- *)
\* C25: a tick with every notification delivered, in the matching minute of
\* an enabled, pending block that has no reminderMode field and no
\* main-alert record, dispatches the block's main alert whatever the weekday
\* and the block's weekdays, keeps the block in the store, and sets the
\* startTime of the working copy one day on.
C25_MissingModeIsDaily ==
  [][(TickStep /\ ~SwitchOff /\ lastOp' # "TickThrows") =>
       \A i \in 1..Len(store) :
         (/\ ~Has(store[i], "reminderMode")
          /\ store[i].enabled /\ store[i].status = "pending"
          /\ MinuteOfDay(store[i].startTime) = MinuteOfDay(now')
          /\ ~MapHas(lastAlertDates, store[i].id)
          /\ ~MapHas(lastNotificationTimes, store[i].id)) =>
           /\ Sent(alerts', "main", store[i].id)
           /\ store[i].id \in StoreIds(store')
           /\ timeBlocks'[i].startTime = store[i].startTime + DayMs]_vars

\* a block without reminderMode whose weekdays do not hold today has just
\* fired
C25_Witness ==
  /\ lastOp = "Tick"
  /\ \E i \in 1..Len(store) :
       /\ ~Has(store[i], "reminderMode")
       /\ getDay(now) \notin store[i].weekdays
       /\ Sent(alerts, "main", store[i].id)

(* -------------------------------- C26 ----------------------------------- *)
\* the stored snapshot of block b still matches clock value t although the
\* block's main alert is recorded for the day of t, at least the debounce
\* time before t
StaleAfterFire(b, t) ==
  /\ Qualifies(b, t)
  /\ MapHas(lastAlertDates, b.id) /\ lastAlertDates[b.id] = Midnight(t)
  /\ MapHas(lastNotificationTimes, b.id)
  /\ t - lastNotificationTimes[b.id] >= DebounceMs

\* C26: a tick that reads the stale pre-fire snapshot of a block that fired
\* earlier on the same day dispatches no main alert for the block, even
\* when the 10-second debounce has elapsed: the record of the day of the
\* last alert refuses it.
C26_NoRefireAfterDebounce ==
  [][(TickStep /\ ~SwitchOff) =>
       \A i \in 1..Len(store) :
         StaleAfterFire(store[i], now') => ~Sent(alerts', "main", store[i].id)]_vars

\* C26 as stated: such a tick dispatches the block's main alert again
C26_RefireAfterDebounce ==
  [][(TickStep /\ ~SwitchOff) =>
       \A i \in 1..Len(store) :
         StaleAfterFire(store[i], now') => Sent(alerts', "main", store[i].id)]_vars

\* a tick past the debounce has reloaded the stale snapshot of a block that
\* fired earlier on this day, and has sent nothing
C26_Witness ==
  /\ lastOp = "Tick"
  /\ ~SwitchOff
  /\ \E i \in 1..Len(store) :
       /\ StaleAfterFire(store[i], now)
       /\ mainCount[store[i].id] >= 1
       /\ lastNotificationTimes[store[i].id] < now
       /\ timeBlocks[i].startTime = store[i].startTime
       /\ alerts = <<>>

(* -------------------------------- C27 ----------------------------------- *)
\* C27: a tick in which a daily or weekly block fires its main alert leaves
\* no lastRemainingMinutes and no lastPreAlertTimes entry for the block, and
\* on the following day, without an edit in between, a pre-alerting block
\* that fired the day before and is polled in the last minute before its
\* trigger time has had a pre-alert on that day.
C27_PreAlertRearmed ==
  lastOp = "Tick" =>
    \A i \in 1..Len(store) :
      /\ (ModeOf(store[i]) # "once" /\ Sent(alerts, "main", store[i].id)) =>
           /\ ~MapHas(lastRemainingMinutes, store[i].id)
           /\ ~MapHas(lastPreAlertTimes, store[i].id)
      /\ (/\ edits = 0 /\ ~SwitchOff /\ DayOf(now) = FirstDay + 1
          /\ Evaluated(store[i])
          /\ store[i].preAlert
          /\ ModeOf(store[i]) # "once"
          /\ WeekdayOk(store[i], now)
          /\ mainCount[store[i].id] >= 1
          /\ TimeDiff(store[i], now) = 1) =>
           preCount[store[i].id] >= 1

(* -------------------------------- C28 ----------------------------------- *)
\* C28: at most one interval is set at any time, and a call of
\* startGlobalTimer or startTimeBlock made while an interval is set sets no
\* other one.  (The interval's callback contains no await: a pass runs to
\* completion before any other callback, which the model renders as one
\* step per tick.)
C28_OneTimer ==
  /\ intervals <= 1
  /\ lastOp \in {"startGlobalTimer", "startTimeBlock"} => (timer /\ intervals = 1)

\* startTimeBlock has been called while the interval was set and ticking
C28_Witness ==
  /\ lastOp = "startTimeBlock"
  /\ timer /\ intervals = 1
  /\ Len(timeBlocks) > Len(store)
  /\ \E id \in AllIds : mainCount[id] >= 1

(* -------------------------------- C29 ----------------------------------- *)
\* C29: on the first day, a stored block whose time of day is still its
\* original one (it was not edited, or edited in its task text only) has
\* had at most one main alert, whatever the order of ticks and edits.  (No
\* alert is sent outside the matching minute, so the day's alerts are those
\* of that minute.)
C29_OncePerMinuteAcrossEdits ==
  DayOf(now) = FirstDay =>
    \A i \in 1..Len(store) :
      MinuteOfDay(store[i].startTime) = TriggerMinute => mainCount[store[i].id] <= 1

PassOn(blocks, t) ==
  IF SwitchOff
  THEN [store |-> blocks, alerts |-> <<>>, lad |-> lastAlertDates,
        lnt |-> lastNotificationTimes, lpt |-> lastPreAlertTimes,
        lrm |-> lastRemainingMinutes]
  ELSE EvalFrom([mem |-> blocks, store |-> blocks,
                 lad |-> lastAlertDates, lnt |-> lastNotificationTimes,
                 lpt |-> lastPreAlertTimes, lrm |-> lastRemainingMinutes,
                 alerts |-> <<>>, fails |-> {}],
                1, settings, t)

Redated(blocks, k) == [i \in 1..Len(blocks) |-> [blocks[i] EXCEPT !.startTime = @ + k * DayMs]]

\* C31: a tick dispatches the same alerts, leaves the same dedup maps and
\* keeps the same blocks stored as the same tick would with every stored
\* startTime moved by whole days; an enabled, pending once block dated on a
\* later day whose hour and minute are those of the tick has its main alert
\* dispatched and is no longer stored.
C31_DateIgnored ==
  [][TickStep =>
       /\ \A k \in {0 - 1, 1, 2, 7} :
            \E r \in {PassOn(Redated(store, k), now')} :
               /\ r.alerts = alerts'
               /\ r.lad = lastAlertDates'
               /\ r.lnt = lastNotificationTimes'
               /\ r.lpt = lastPreAlertTimes'
               /\ r.lrm = lastRemainingMinutes'
               /\ StoreIds(r.store) = StoreIds(store')
       /\ \A i \in 1..Len(store) :
            (/\ ~SwitchOff
             /\ store[i].enabled /\ store[i].status = "pending"
             /\ store[i].reminderMode = "once"
             /\ DayOf(store[i].startTime) > DayOf(now')
             /\ MinuteOfDay(store[i].startTime) = MinuteOfDay(now')
             /\ ~MapHas(lastNotificationTimes, store[i].id)) =>
              /\ Sent(alerts', "main", store[i].id)
              /\ store[i].id \notin StoreIds(store')]_vars

\* a once block dated on a later day has fired and is no longer stored
C31_Witness ==
  /\ lastOp = "Tick"
  /\ \E i \in 1..Len(timeBlocks) :
       /\ timeBlocks[i].reminderMode = "once"
       /\ DayOf(timeBlocks[i].startTime) > DayOf(now)
       /\ Sent(alerts, "main", timeBlocks[i].id)
       /\ timeBlocks[i].id \notin StoreIds(store)

(* -------------------------------- C32 ----------------------------------- *)
\* C32: the alerts dispatched by one tick hold at most one alert, pre-alert
\* or main alert, per block.
C32_OneAlertPerBlockPerTick ==
  \A id \in AllIds :
    CountKind(alerts, "pre", id) + CountKind(alerts, "main", id) <= 1

\* a tick has dispatched the main alert, and no pre-alert, of a block that
\* has had a pre-alert earlier on the day
C32_Witness ==
  /\ lastOp \in {"Tick", "SleepTick"}
  /\ \E id \in AllIds :
       /\ preCount[id] >= 1
       /\ Sent(alerts, "main", id)
       /\ ~Sent(alerts, "pre", id)

(* -------------------------------- C33 ----------------------------------- *)
\* C33: after a tick, every stored block that had no main alert in the tick
\* is stored as before, the stored list holds no other block and the blocks
\* it keeps are in their old order; a block with no alert in the tick has
\* its four dedup entries as before, and a block with a pre-alert only has
\* its lastAlertDates and lastNotificationTimes entries as before.
C33_TickFrame ==
  [][TickStep =>
       /\ \A i \in 1..Len(store) :
            /\ ~Sent(alerts', "main", store[i].id) => KeptInStore(store[i])
            /\ (~Sent(alerts', "main", store[i].id) /\ ~Sent(alerts', "pre", store[i].id)) =>
                 DedupSameFor(store[i].id)
            /\ ~Sent(alerts', "main", store[i].id) =>
                 /\ EntrySame(lastAlertDates, lastAlertDates', store[i].id)
                 /\ EntrySame(lastNotificationTimes, lastNotificationTimes', store[i].id)
       /\ \A j \in 1..Len(store') : \E i \in 1..Len(store) : store'[j] = store[i]
       /\ \A i1 \in 1..Len(store), i2 \in 1..Len(store) :
            \A j1 \in 1..Len(store'), j2 \in 1..Len(store') :
              (i1 < i2 /\ store'[j1].id = store[i1].id /\ store'[j2].id = store[i2].id) =>
                j1 < j2]_vars

\* a tick has dispatched the pre-alert of the first of two stored blocks
\* while both held a record of an earlier main alert
C33_Witness ==
  /\ lastOp = "Tick"
  /\ Len(store) = 2
  /\ Sent(alerts, "pre", store[1].id)
  /\ MapHas(lastAlertDates, store[1].id)
  /\ MapHas(lastAlertDates, store[2].id)

(* -------------------------------- C34 ----------------------------------- *)
\* C34: a step of updateTimeBlock(id, updatedData) with an id that no stored
\* block has returns false and leaves the stored list and the four dedup
\* maps as they were.
C34_AbsentIdNoOp ==
  [][\A id \in AllIds \ StoreIds(store), updatedData \in Patches :
       updateTimeBlock(id, updatedData) =>
         /\ lastOp' = "updateTimeBlock:false"
         /\ store' = store
         /\ dedup' = dedup]_vars

\* updateTimeBlock has returned false while blocks were stored and the maps
\* held records
C34_Witness ==
  /\ lastOp = "updateTimeBlock:false"
  /\ store # <<>>
  /\ \E id \in StoreIds(store) :
       MapHas(lastAlertDates, id) /\ MapHas(lastPreAlertTimes, id)

(* -------------------------------- C35 ----------------------------------- *)
\* C35: a step of saveTimeSettings(getTimeSettings()) leaves the stored list
\* as it is, whatever list was saved before and however much later the
\* second save is made.
C35_SaveIdempotent ==
  [][saveAgain(getTimeSettings) => store' = store]_vars

\* a list handed over without id and createdAt has been saved, and saved
\* again later as read from the store, and holds the id and the createdAt of
\* the first save
C35_Witness ==
  /\ lastOp = "saveAgain"
  /\ edits = 2
  /\ Len(store) = 1
  /\ store[1].id = FreshIdAt(0)
  /\ store[1].createdAt < now
  /\ store[1].createdAt > 7

(* -------------------------------- C36 ----------------------------------- *)
\* C36: while the latest call of openFloatingWindow or closeFloatingWindow is
\* a call of closeFloatingWindow, the stored visible and
\* window.__floatingVisible are false.
C36_ClosedStaysInvisible ==
  closedLast => (~stateVisible /\ ~floatingVisible)

(* -------------------------------- C37 ----------------------------------- *)
\* C37: at most one floating window is live, and __floatingOpening is true
\* only while a creation callback is still to run.
C37_OneFloatingWindow ==
  /\ Cardinality(liveWindows) <= 1
  /\ floatingOpening => pendingCallbacks # {}
====
